---- MODULE Spec2Model ----
(***************************************************************************)
(* Model of process_docs.py (DocsMigrator): the markup stripper            *)
(* process_mdx_content, the frontmatter normaliser clean_frontmatter, the  *)
(* per-file handler clean_file and the batch loop process_directory.       *)
(*                                                                         *)
(* Text is a sequence of one-character strings, so that the regular        *)
(* expressions of the source are matched character by character.           *)
(***************************************************************************)
EXTENDS Integers, Sequences, FiniteSets, TLC

VARIABLES
  markup,      \* the document given to process_mdx_content, as a sequence of markup items
  content,     \* the text of that document (argument of process_mdx_content)
  stripped,    \* process_mdx_content(content)
  restripped,  \* process_mdx_content(stripped)
  phase,       \* how far the stripper's run got ("off" when another specification runs)
  fileText,    \* clean_file: the text read from the file
  cleaned,     \* clean_file: the outcome of clean_frontmatter(fileText)
  written,     \* clean_file: the text written back to the file
  stage,       \* clean_file: how far the transformation got ("off" when another specification runs)
  dir,         \* process_directory: the entries under docs_dir, as found at the start of the run
  disk,        \* process_directory: the current text of each entry
  backup,      \* process_directory: the backup directory (whether it exists, and the text of each copy)
  hadBackup,   \* process_directory: whether the backup directory existed when the run started
  pending,     \* process_directory: the entries rglob has not yielded yet
  handed,      \* process_directory: the entries handed to clean_file
  rewritten,   \* process_directory: the entries clean_file wrote back
  logged,      \* process_directory: the entries whose handling logged an error
  pc           \* process_directory: position of the run ("off" when another specification runs)

stripVars == <<markup, content, stripped, restripped, phase>>

fileVars == <<fileText, cleaned, written, stage>>

dirVars == <<dir, disk, backup, hadBackup, pending, handed, rewritten, logged, pc>>

vars ==
  <<markup, content, stripped, restripped, phase, fileText, cleaned, written, stage,
    dir, disk, backup, hadBackup, pending, handed, rewritten, logged, pc>>

----------------------------------------------------------------------------
(* Bounds of the model *)

MaxFrags == 3      \* items in a generated document

MaxText == 4       \* items in a generated plain text

MaxFmLines == 2    \* lines in a generated frontmatter block

MaxFiles == 2      \* entries under the docs directory

----------------------------------------------------------------------------
(* Text helpers *)

\* the characters Python's \s and str.strip() treat as whitespace, within the model's alphabet
Whitespace == {" ", "\n", "\t"}

Min(S) == CHOOSE x \in S : \A y \in S : x <= y

Max(S) == CHOOSE x \in S : \A y \in S : x >= y

\* the literal lit occurs in s at index i
StartsAt(s, lit, i) ==
  /\ i >= 1
  /\ i + Len(lit) - 1 <= Len(s)
  /\ \A k \in 1..Len(lit) : s[i + k - 1] = lit[k]

\* index of the first occurrence of lit in s at or after i, 0 when there is none
FindLit(s, lit, i) ==
  LET P == {p \in i..(Len(s) - Len(lit) + 1) : StartsAt(s, lit, p)}
  IN IF P = {} THEN 0 ELSE Min(P)

\* lit occurs somewhere in s
Occurs(s, lit) == FindLit(s, lit, 1) # 0

\* index of the last character of the maximal whitespace run starting at i (i - 1 when s[i] is no whitespace)
WsRunEnd(s, i) ==
  LET N == {p \in i..Len(s) : s[p] \notin Whitespace}
  IN IF N = {} THEN Len(s) ELSE Min(N) - 1

----------------------------------------------------------------------------
(* The tables of the program *)

components ==
  << <<"C", "a", "r", "d">>,
     <<"C", "a", "r", "d", "G", "r", "o", "u", "p">>,
     <<"T", "a", "b", "s">>,
     <<"T", "a", "b", "I", "t", "e", "m">>,
     <<"R", "e", "s", "p", "o", "n", "s", "e", "F", "i", "e", "l", "d">>,
     <<"P", "a", "r", "a", "m", "F", "i", "e", "l", "d">>,
     <<"E", "x", "p", "a", "n", "d", "a", "b", "l", "e">>,
     <<"R", "e", "q", "u", "e", "s", "t", "E", "x", "a", "m", "p", "l", "e">>,
     <<"R", "e", "s", "p", "o", "n", "s", "e", "E", "x", "a", "m", "p", "l", "e">>,
     <<"C", "o", "d", "e", "G", "r", "o", "u", "p">>,
     <<"T", "i", "p">>,
     <<"I", "n", "f", "o">>,
     <<"W", "a", "r", "n", "i", "n", "g">>,
     <<"N", "o", "t", "e">>,
     <<"S", "t", "e", "p", "s">>,
     <<"S", "t", "e", "p">>,
     <<"F", "r", "a", "m", "e">>,
     <<"C", "h", "e", "c", "k">>,
     <<"C", "o", "d", "e", "B", "l", "o", "c", "k">>,
     <<"C", "o", "l">>,
     <<"T", "a", "g", "F", "i", "l", "t", "e", "r", "s", "P", "r", "o", "p", "e", "r", "t", "i", "e", "s">>,
     <<"P", "r", "o", "p", "e", "r", "t", "y">>,
     <<"A", "c", "c", "o", "r", "d", "i", "o", "n">>,
     <<"A", "c", "c", "o", "r", "d", "i", "o", "n", "G", "r", "o", "u", "p">>,
     <<"U", "p", "d", "a", "t", "e">>,
     <<"S", "n", "i", "p", "p", "e", "t">> >>

\* the keys of self.mintlify_components
mintlify_components ==
  { <<"F", "r", "a", "m", "e">>,
    <<"C", "a", "r", "d">>,
    <<"C", "a", "r", "d", "G", "r", "o", "u", "p">>,
    <<"C", "o", "d", "e", "G", "r", "o", "u", "p">>,
    <<"P", "a", "r", "a", "m", "F", "i", "e", "l", "d">>,
    <<"A", "c", "c", "o", "r", "d", "i", "o", "n">>,
    <<"A", "c", "c", "o", "r", "d", "i", "o", "n", "G", "r", "o", "u", "p">>,
    <<"S", "t", "e", "p", "s">>,
    <<"T", "a", "b", "s">>,
    <<"T", "a", "b">>,
    <<"R", "e", "s", "p", "o", "n", "s", "e", "F", "i", "e", "l", "d">>,
    <<"R", "e", "q", "u", "e", "s", "t", "E", "x", "a", "m", "p", "l", "e">>,
    <<"R", "e", "s", "p", "o", "n", "s", "e", "E", "x", "a", "m", "p", "l", "e">>,
    <<"T", "i", "p">>,
    <<"I", "n", "f", "o">>,
    <<"W", "a", "r", "n", "i", "n", "g">>,
    <<"N", "o", "t", "e">> }

----------------------------------------------------------------------------
(* The regular expressions of process_mdx_content.  Each Match operator    *)
(* gives the index of the last character of the match that starts at i,    *)
(* or 0 when the pattern does not match at i.                              *)

\* r'\{/\*\s*Mintlify.*?\*/\}' with re.DOTALL
MatchComment(s, i) ==
  IF ~StartsAt(s, <<"{", "/", "*">>, i) THEN 0
  ELSE LET m == WsRunEnd(s, i + 3) + 1
           word == <<"M", "i", "n", "t", "l", "i", "f", "y">>
       IN IF ~StartsAt(s, word, m) THEN 0
          ELSE LET e == FindLit(s, <<"*", "/", "}">>, m + Len(word))
               IN IF e = 0 THEN 0 ELSE e + 2

\* index of the '>' that ends '<{component}[^>]*>' started at i, 0 when it does not match
MatchOpenTag(component, s, i) ==
  IF ~StartsAt(s, <<"<">> \o component, i) THEN 0
  ELSE FindLit(s, <<">">>, i + 1 + Len(component))

\* MatchPaired with a greedy '.*': the region runs to the last closing tag of the name
MatchPairedGreedy(component, s, i) ==
  LET g == MatchOpenTag(component, s, i)
      close == <<"<", "/">> \o component \o <<">">>
      E == IF g = 0 THEN {} ELSE {e \in (g + 1)..Len(s) : StartsAt(s, close, e)}
  IN IF E = {} THEN 0 ELSE Max(E) + Len(close) - 1

\* f'<{component}[^>]*>.*?</{component}>' with re.DOTALL
MatchPaired(component, s, i) ==
  LET g == MatchOpenTag(component, s, i)
      close == <<"<", "/">> \o component \o <<">">>
  IN IF g = 0 THEN 0
     ELSE LET e == FindLit(s, close, g + 1)
          IN IF e = 0 THEN 0 ELSE e + Len(close) - 1

\* f'<{component}[^>]*/>'
MatchSelfClosing(component, s, i) ==
  LET g == MatchOpenTag(component, s, i)
  IN IF g # 0 /\ g - 1 >= i + 1 + Len(component) /\ s[g - 1] = "/" THEN g ELSE 0

\* f'</{component}>'
MatchCloseTag(component, s, i) ==
  LET close == <<"<", "/">> \o component \o <<">">>
  IN IF StartsAt(s, close, i) THEN i + Len(close) - 1 ELSE 0

\* r'\n\s*\n\s*\n': from a newline to the last newline of its whitespace run, when the run holds three
MatchBlankRun(s, i) ==
  IF i > Len(s) \/ s[i] # "\n" THEN 0
  ELSE LET NL == {p \in i..WsRunEnd(s, i) : s[p] = "\n"}
       IN IF Cardinality(NL) >= 3 THEN Max(NL) ELSE 0

\* r'^\s+$' with re.MULTILINE
MatchBlankLine(s, i) ==
  IF ~(i = 1 \/ s[i - 1] = "\n") THEN 0
  ELSE LET E == {e \in i..WsRunEnd(s, i) : e = Len(s) \/ s[e + 1] = "\n"}
       IN IF E = {} THEN 0 ELSE Max(E)

\* r'\s+\n'
MatchTrailingWs(s, i) ==
  LET NL == {p \in (i + 1)..WsRunEnd(s, i) : s[p] = "\n"}
  IN IF NL = {} THEN 0 ELSE Max(NL)

MatchEnd(pat, s, i) ==
  CASE pat.kind = "comment"     -> MatchComment(s, i)
    [] pat.kind = "paired"      -> MatchPaired(pat.name, s, i)
    [] pat.kind = "selfclosing" -> MatchSelfClosing(pat.name, s, i)
    [] pat.kind = "opentag"     -> MatchOpenTag(pat.name, s, i)
    [] pat.kind = "closetag"    -> MatchCloseTag(pat.name, s, i)
    [] pat.kind = "blankrun"    -> MatchBlankRun(s, i)
    [] pat.kind = "blankline"   -> MatchBlankLine(s, i)
    [] pat.kind = "trailingws"  -> MatchTrailingWs(s, i)

Pattern(kind, name) == [kind |-> kind, name |-> name]

\* re.sub with count=1: only the leftmost match is replaced
ReSubFromOnce(pat, repl, s, i) ==
  LET P == {p \in i..Len(s) : MatchEnd(pat, s, p) # 0}
  IN IF P = {} THEN SubSeq(s, i, Len(s))
     ELSE LET p == Min(P)
          IN SubSeq(s, i, p - 1) \o repl \o SubSeq(s, MatchEnd(pat, s, p) + 1, Len(s))

\* re.sub(pattern, repl, s) from index i on: leftmost matches, not overlapping
RECURSIVE ReSubFrom(_, _, _, _)
ReSubFrom(pat, repl, s, i) ==
  LET P == {p \in i..Len(s) : MatchEnd(pat, s, p) # 0}
  IN IF P = {} THEN SubSeq(s, i, Len(s))
     ELSE LET p == Min(P)
          IN SubSeq(s, i, p - 1) \o repl \o ReSubFrom(pat, repl, s, MatchEnd(pat, s, p) + 1)

ReSub(pat, repl, s) == ReSubFrom(pat, repl, s, 1)

\* for component in components: content = re.sub(<pattern of kind>, '', content)
\* (the test on Len makes each pass a value before the next pass starts)
RECURSIVE RemoveEach(_, _, _)
RemoveEach(kind, s, k) ==
  IF k > Len(components) THEN s
  ELSE LET r == ReSub(Pattern(kind, components[k]), <<>>, s)
       IN IF Len(r) >= 0 THEN RemoveEach(kind, r, k + 1) ELSE r

\* for component in components: remove '<{component}[^>]*>' and then '</{component}>'
RECURSIVE RemoveBareTags(_, _)
RemoveBareTags(s, k) ==
  IF k > Len(components) THEN s
  ELSE LET o == ReSub(Pattern("opentag", components[k]), <<>>, s)
           r == IF Len(o) >= 0 THEN ReSub(Pattern("closetag", components[k]), <<>>, o) ELSE o
       IN IF Len(r) >= 0 THEN RemoveBareTags(r, k + 1) ELSE r

\* the whitespace clean-up of process_mdx_content
CleanWhitespace(s) ==
  LET a == ReSub(Pattern("blankrun", <<>>), <<"\n", "\n">>, s)
      b == ReSub(Pattern("blankline", <<>>), <<>>, a)
  IN ReSub(Pattern("trailingws", <<>>), <<"\n">>, b)

\* str.strip()
Strip(s) ==
  LET N == {p \in 1..Len(s) : s[p] \notin Whitespace}
  IN IF N = {} THEN <<>> ELSE SubSeq(s, Min(N), Max(N))

process_mdx_content(text) ==
  LET c0 == ReSub(Pattern("comment", <<>>), <<>>, text)
      c1 == RemoveEach("paired", c0, 1)
      c2 == RemoveEach("selfclosing", c1, 1)
      c3 == RemoveBareTags(c2, 1)
  IN Strip(CleanWhitespace(c3))

----------------------------------------------------------------------------
(* Documents given to the stripper *)

Text(t) == [kind |-> "text", name |-> <<>>, text |-> t]

OpenTag(n) == [kind |-> "open", name |-> n, text |-> <<"<">> \o n \o <<">">>]

CloseTag(n) == [kind |-> "close", name |-> n, text |-> <<"<", "/">> \o n \o <<">">>]

SelfClosing(n, attrs) == [kind |-> "self", name |-> n, text |-> <<"<">> \o n \o attrs \o <<"/", ">">>]

Pair(n, body) ==
  [kind |-> "pair", name |-> n,
   text |-> <<"<">> \o n \o <<">">> \o body \o <<"<", "/">> \o n \o <<">">>]

Comment(body) == [kind |-> "comment", name |-> <<>>, text |-> <<"{", "/", "*", " ">> \o body \o <<"*", "/", "}">>]

Partial(t) == [kind |-> "partial", name |-> <<>>, text |-> t]

RECURSIVE Render(_)
Render(doc) == IF doc = <<>> THEN <<>> ELSE Head(doc).text \o Render(Tail(doc))

Frame == <<"F", "r", "a", "m", "e">>

Tabs == <<"T", "a", "b", "s">>

Tab == <<"T", "a", "b">>

Fragments ==
  { Text(<<"a">>), Text(<<"\n">>), Text(<<" ">>),
    SelfClosing(Frame, <<" ", "s", "r", "c", "=", "\"", "x", "\"">>),
    Pair(Frame, <<"y">>),
    OpenTag(Tab),
    OpenTag(Tabs), CloseTag(Tabs),
    Comment(<<"M", "i", "n", "t", "l", "i", "f", "y", " ", "n", " ">>) }

SeqsUpTo(S, n) == UNION {[1..k -> S] : k \in 0..n}

\* a component whose body holds another instance of the same tag name
NestedDoc(n, a, b) == <<OpenTag(n), OpenTag(n), Text(a), CloseTag(n), Text(b), CloseTag(n)>>

NestTags == {Tabs, Frame}

NestBodies == {<<"i", "n", "n", "e", "r">>, <<"o", "u", "t", "e", "r">>}

NestedInputs == {NestedDoc(n, a, b) : n \in NestTags, a \in NestBodies, b \in NestBodies}

\* a tag name split around another tag: text that is no tag until the inner tag is removed
SplitInputs ==
  {<<Partial(<<"<", "C", "a">>), x, Partial(<<"r", "d", ">">>)>> :
     x \in {OpenTag(<<"N", "o", "t", "e">>), OpenTag(Tabs), CloseTag(Tabs)}}

StripInputs == SeqsUpTo(Fragments, MaxFrags) \cup NestedInputs \cup SplitInputs

----------------------------------------------------------------------------
(* Specification of the stripper: process_mdx_content applied to a          *)
(* document, and applied again to its own output.                          *)

NoResult == [outcome |-> "none", text |-> <<>>, logged |-> FALSE, error |-> "none"]

FileIdle == fileText = <<>> /\ cleaned = NoResult /\ written = <<>> /\ stage = "off"

DirIdle ==
  /\ dir = <<>> /\ disk = <<>> /\ backup = [exists |-> FALSE, files |-> <<>>] /\ hadBackup = FALSE
  /\ pending = {} /\ handed = {} /\ rewritten = {} /\ logged = {} /\ pc = "off"

StripIdle == markup = <<>> /\ content = <<>> /\ stripped = <<>> /\ restripped = <<>> /\ phase = "off"

InitStrip ==
  /\ markup \in StripInputs
  /\ content = Render(markup)
  /\ stripped = <<>>
  /\ restripped = <<>>
  /\ phase = "input"
  /\ FileIdle
  /\ DirIdle

StripOnce ==
  /\ phase = "input"
  /\ stripped' = process_mdx_content(content)
  /\ phase' = "stripped"
  /\ UNCHANGED <<markup, content, restripped, fileVars, dirVars>>

StripAgain ==
  /\ phase = "stripped"
  /\ restripped' = process_mdx_content(stripped)
  /\ phase' = "restripped"
  /\ UNCHANGED <<markup, content, stripped, fileVars, dirVars>>

NextStrip == StripOnce \/ StripAgain

SpecStrip == InitStrip /\ [][NextStrip]_vars

----------------------------------------------------------------------------
(* Frontmatter: the block grammar of the structured-data library, for the   *)
(* blocks the model generates: unindented lines 'key: scalar', '- scalar'   *)
(* or a plain scalar, the scalar plain, single-quoted or double-quoted.     *)

titleKey == <<"t", "i", "t", "l", "e">>

\* self.frontmatter_mapping, in its iteration order
frontmatter_mapping ==
  << [old_key |-> <<"s", "i", "d", "e", "b", "a", "r", "T", "i", "t", "l", "e">>,
      new_key |-> <<"s", "i", "d", "e", "b", "a", "r", "_", "l", "a", "b", "e", "l">>],
     [old_key |-> <<"d", "e", "s", "c", "r", "i", "p", "t", "i", "o", "n">>,
      new_key |-> <<"d", "e", "s", "c", "r", "i", "p", "t", "i", "o", "n">>],
     [old_key |-> titleKey, new_key |-> titleKey] >>

\* s.split('\n')
RECURSIVE SplitLines(_)
SplitLines(s) ==
  LET k == FindLit(s, <<"\n">>, 1)
  IN IF k = 0 THEN <<s>>
     ELSE <<SubSeq(s, 1, k - 1)>> \o SplitLines(SubSeq(s, k + 1, Len(s)))

Digits == {"0", "1", "2", "3", "4", "5", "6", "7", "8", "9"}

Str(t) == [type |-> "str", text |-> t]

\* the value a plain (unquoted) scalar resolves to
ResolvePlain(t) ==
  IF t = <<>> \/ t = <<"n", "u", "l", "l">> \/ t = <<"~">> THEN [type |-> "null", text |-> <<"n", "u", "l", "l">>]
  ELSE IF t = <<"t", "r", "u", "e">> \/ t = <<"f", "a", "l", "s", "e">> THEN [type |-> "bool", text |-> t]
  ELSE IF \A k \in 1..Len(t) : t[k] \in Digits THEN [type |-> "int", text |-> t]
  ELSE Str(t)

\* the scalar written as t: [ok |-> FALSE] when the scanner rejects it
ParseScalar(t) ==
  IF t # <<>> /\ Head(t) \in {"\"", "'"}
  THEN IF Len(t) >= 2 /\ t[Len(t)] = Head(t) /\ \A k \in 2..(Len(t) - 1) : t[k] # Head(t)
       THEN [ok |-> TRUE, value |-> Str(SubSeq(t, 2, Len(t) - 1))]
       ELSE [ok |-> FALSE, value |-> Str(<<>>)]
  ELSE IF Occurs(t, <<":", " ">>) THEN [ok |-> FALSE, value |-> Str(<<>>)]
  ELSE [ok |-> TRUE, value |-> ResolvePlain(t)]

\* the positions of l where a ':' ends a key
KeyColons(l) == {c \in 1..Len(l) : l[c] = ":" /\ (c = Len(l) \/ l[c + 1] = " ")}

\* the node a line yields: of the given kind, or a scanner error when its scalar is rejected
Node(kind, key, v) == [kind |-> IF v.ok THEN kind ELSE "error", key |-> key, value |-> v.value]

\* a key with its scalar, the key ending at the first of the positions C
ParsePair(l, c) == Node("pair", SubSeq(l, 1, c - 1), ParseScalar(Strip(SubSeq(l, c + 1, Len(l)))))

\* a line without its surrounding whitespace
ParseStripped(l) ==
  IF l = <<>> THEN [kind |-> "blank", key |-> <<>>, value |-> Str(<<>>)]
  ELSE IF StartsAt(l, <<"-", " ">>, 1) THEN Node("item", <<>>, ParseScalar(Strip(SubSeq(l, 3, Len(l)))))
  ELSE IF KeyColons(l) = {} \/ Head(l) \in {"\"", "'"} THEN Node("scalar", <<>>, ParseScalar(l))
  ELSE ParsePair(l, Min(KeyColons(l)))

\* one line of a block: a key with its scalar, a sequence entry, a plain scalar, or a scanner error
ParseLine(line) == ParseStripped(Strip(line))

\* lines joined with single spaces: a plain scalar that runs over several lines
RECURSIVE FoldLines(_)
FoldLines(ls) ==
  IF Len(ls) = 1 THEN Strip(ls[1]) ELSE Strip(ls[1]) \o <<" ">> \o FoldLines(Tail(ls))

\* None
NoneValue == [type |-> "null", text |-> <<"n", "u", "l", "l">>]

\* a yaml.YAMLError
YAMLError == [kind |-> "error", map |-> <<>>, list |-> <<>>, scalar |-> NoneValue]

\* the document of the nodes ps, which the lines ls yielded and which are of the kinds in kinds
Construct(ls, ps, kinds) ==
  IF "error" \in kinds THEN YAMLError
  ELSE IF kinds = {"pair"}
  THEN [kind |-> "map",
        map |-> [key \in {ps[k].key : k \in 1..Len(ps)} |->
                   ps[Max({k \in 1..Len(ps) : ps[k].key = key})].value],
        list |-> <<>>, scalar |-> NoneValue]
  ELSE IF kinds = {"item"}
  THEN [kind |-> "list", map |-> <<>>, list |-> [k \in 1..Len(ps) |-> ps[k].value], scalar |-> NoneValue]
  ELSE IF ps[1].kind = "scalar" /\ "pair" \notin kinds
  THEN [kind |-> "scalar", map |-> <<>>, list |-> <<>>,
        scalar |-> IF Len(ls) = 1 THEN ps[1].value ELSE Str(FoldLines(ls))]
  ELSE YAMLError

\* the nodes of the lines, one per line
ParseLines(ls) == [k \in 1..Len(ls) |-> ParseLine(ls[k])]

\* the kinds of the nodes ps
Kinds(ps) == {ps[k].kind : k \in 1..Len(ps)}

\* the document of the non-blank lines ls
Compose(ls) ==
  IF Len(ls) = 0 THEN [kind |-> "scalar", map |-> <<>>, list |-> <<>>, scalar |-> NoneValue]
  ELSE Construct(ls, ParseLines(ls), Kinds(ParseLines(ls)))

\* yaml.safe_load(fm_content): a mapping (a later duplicate key replaces the
\* earlier one), a list, a scalar, None for an empty block, or a YAMLError
safe_load(body) == Compose(SelectSeq(SplitLines(body), LAMBDA l : Strip(l) # <<>>))

\* bool(x) is False: the values 'or {}' replaces by an empty mapping
Falsy(data) ==
  \/ data.kind = "map" /\ DOMAIN data.map = {}
  \/ data.kind = "list" /\ data.list = <<>>
  \/ /\ data.kind = "scalar"
     /\ \/ data.scalar.type = "null"
        \/ data.scalar.type = "str" /\ data.scalar.text = <<>>
        \/ data.scalar.type = "bool" /\ data.scalar.text = <<"f", "a", "l", "s", "e">>
        \/ data.scalar.type = "int" /\ \A k \in 1..Len(data.scalar.text) : data.scalar.text[k] = "0"

EmptyMap == [kind |-> "map", map |-> <<>>, list |-> <<>>, scalar |-> NoneValue]

\* key in fm_data: "member", "absent", or "TypeError" when fm_data is not iterable
Contains(data, key) ==
  CASE data.kind = "map" -> IF key \in DOMAIN data.map THEN "member" ELSE "absent"
    [] data.kind = "list" ->
         IF \E k \in 1..Len(data.list) : data.list[k] = Str(key) THEN "member" ELSE "absent"
    [] data.kind = "scalar" /\ data.scalar.type = "str" ->
         IF Occurs(data.scalar.text, key) THEN "member" ELSE "absent"
    [] OTHER -> "TypeError"

\* value.strip('"\'')
StripQuotes(t) ==
  LET N == {p \in 1..Len(t) : t[p] \notin {"\"", "'"}}
  IN IF N = {} THEN <<>> ELSE SubSeq(t, Min(N), Max(N))

\* f'"{value}"'
Quoted(t) == <<"\"">> \o t \o <<"\"">>

\* the characters a plain scalar may not start with
Indicators == {"\"", "'", "-", "?", ":", ",", "[", "]", "{", "}", "#", "&", "*", "!", "|", ">", "%", "@", " "}

\* a scalar as yaml.dump writes it: plain when the text reads back as the same
\* string, single-quoted (quotes inside doubled) when it does not
RECURSIVE DoubleQuotes(_)
DoubleQuotes(t) ==
  IF t = <<>> THEN <<>>
  ELSE (IF Head(t) = "'" THEN <<"'", "'">> ELSE <<Head(t)>>) \o DoubleQuotes(Tail(t))

DumpScalar(v) ==
  IF v.type # "str" THEN v.text
  ELSE IF v.text # <<>> /\ Head(v.text) \notin Indicators /\ v.text[Len(v.text)] # " "
          /\ ~Occurs(v.text, <<":", " ">>) /\ ~Occurs(v.text, <<" ", "#">>)
          /\ ResolvePlain(v.text).type = "str"
       THEN v.text
       ELSE <<"'">> \o DoubleQuotes(v.text) \o <<"'">>

\* the characters of keys, in code-point order
CodeOrder ==
  << "0", "1", "2", "3", "4", "5", "6", "7", "8", "9", "A", "B", "C", "D", "E", "F", "G", "H", "I",
     "J", "K", "L", "M", "N", "O", "P", "Q", "R", "S", "T", "U", "V", "W", "X", "Y", "Z", "_", "a", "b",
     "c", "d", "e", "f", "g", "h", "i", "j", "k", "l", "m", "n", "o", "p", "q", "r", "s", "t", "u", "v",
     "w", "x", "y", "z" >>

Code(c) == CHOOSE k \in 1..Len(CodeOrder) : CodeOrder[k] = c

\* a < b as Python compares strings
RECURSIVE LexLess(_, _)
LexLess(a, b) ==
  IF b = <<>> THEN FALSE
  ELSE IF a = <<>> THEN TRUE
  ELSE IF Head(a) = Head(b) THEN LexLess(Tail(a), Tail(b))
  ELSE Code(Head(a)) < Code(Head(b))

\* sorted(keys)
RECURSIVE Sorted(_)
Sorted(S) ==
  IF S = {} THEN <<>>
  ELSE LET m == CHOOSE x \in S : \A y \in S \ {x} : LexLess(x, y)
       IN <<m>> \o Sorted(S \ {m})

\* yaml.dump(new_fm, default_flow_style=False, allow_unicode=True): one
\* 'key: scalar' line per key, the keys sorted; '{}' for an empty mapping
RECURSIVE DumpLines(_, _)
DumpLines(new_fm, keys) ==
  IF keys = <<>> THEN <<>>
  ELSE Head(keys) \o <<":", " ">> \o DumpScalar(new_fm[Head(keys)]) \o <<"\n">>
         \o DumpLines(new_fm, Tail(keys))

dump(new_fm) ==
  IF DOMAIN new_fm = {} THEN <<"{", "}", "\n">> ELSE DumpLines(new_fm, Sorted(DOMAIN new_fm))

\* index of the last character of re.match(r'^---\n(.*?)\n---', content, re.DOTALL), 0 without a match
FrontmatterEnd(s) ==
  IF ~StartsAt(s, <<"-", "-", "-", "\n">>, 1) THEN 0
  ELSE LET k == FindLit(s, <<"\n", "-", "-", "-">>, 5)
       IN IF k = 0 THEN 0 ELSE k + 3

\* frontmatter_match.group(1)
FrontmatterBody(s) == SubSeq(s, 5, FrontmatterEnd(s) - 4)

\* fm_data = yaml.safe_load(fm_content) or {}
OrEmpty(d) == IF d.kind # "error" /\ Falsy(d) THEN EmptyMap ELSE d

LoadFrontmatter(s) == OrEmpty(safe_load(FrontmatterBody(s)))

\* value = f'"{value.strip(...)}"' if isinstance(value, str)
CleanValue(v) == IF v.type = "str" THEN Str(Quoted(StripQuotes(v.text))) ELSE v

\* MapFields without the test on the mapping table: a field the table does not
\* hold is kept under its own name
MapFieldsKeepAll(data) ==
  LET Target(k) ==
        IF \E j \in 1..Len(frontmatter_mapping) : frontmatter_mapping[j].old_key = k
        THEN frontmatter_mapping[CHOOSE j \in 1..Len(frontmatter_mapping) :
                                   frontmatter_mapping[j].old_key = k].new_key
        ELSE k
      K == DOMAIN data.map \ {titleKey}
  IN [nk \in {Target(k) : k \in K} |-> CleanValue(data.map[CHOOSE k \in K : Target(k) = nk])]

\* the mapped fields other than title: the entries of new_fm they add
MapFields(data) ==
  LET E == {k \in 1..Len(frontmatter_mapping) :
              /\ frontmatter_mapping[k].old_key # titleKey
              /\ frontmatter_mapping[k].old_key \in DOMAIN data.map}
      Old(nk) == frontmatter_mapping[Max({k \in E : frontmatter_mapping[k].new_key = nk})].old_key
  IN [nk \in {frontmatter_mapping[k].new_key : k \in E} |-> CleanValue(data.map[Old(nk)])]

\* new_fm['title'] = f'"{value}"'
TitleField(data) ==
  IF titleKey \in DOMAIN data.map
  THEN [nk \in {titleKey} |-> Str(Quoted(StripQuotes(data.map[titleKey].text)))]
  ELSE <<>>

Returned(t, wasLogged) == [outcome |-> "returned", text |-> t, logged |-> wasLogged, error |-> "none"]

Raised(t, e) == [outcome |-> "raised", text |-> t, logged |-> FALSE, error |-> e]

\* f"---\n{new_fm_str}---\n{rest_content}"
Rebuild(new_fm, rest) == <<"-", "-", "-", "\n">> \o dump(new_fm) \o <<"-", "-", "-", "\n">> \o rest

\* the body of the try block, fm_data loaded and rest the content after the block
Rewrite(text, data, rest) ==
  IF data.kind = "error" THEN Returned(text, TRUE)
  ELSE IF Contains(data, titleKey) = "TypeError" THEN Raised(text, "TypeError")
  ELSE IF Contains(data, titleKey) = "member" /\ data.kind # "map" THEN Raised(text, "TypeError")
  ELSE IF Contains(data, titleKey) = "member" /\ data.map[titleKey].type # "str"
  THEN Raised(text, "AttributeError")
  ELSE IF data.kind # "map"
  THEN IF \E k \in 1..Len(frontmatter_mapping) :
            /\ frontmatter_mapping[k].old_key # titleKey
            /\ Contains(data, frontmatter_mapping[k].old_key) = "member"
       THEN Raised(text, "TypeError")
       ELSE Returned(Rebuild(<<>>, rest), FALSE)
  ELSE Returned(Rebuild(TitleField(data) @@ MapFields(data), rest), FALSE)

\* clean_frontmatter(content): the text it returns, or the exception that leaves it
clean_frontmatter(text) ==
  IF FrontmatterEnd(text) = 0 THEN Returned(text, FALSE)
  ELSE Rewrite(text, LoadFrontmatter(text), SubSeq(text, FrontmatterEnd(text) + 1, Len(text)))

----------------------------------------------------------------------------
(* Specification of the transformation of one file: clean_frontmatter and   *)
(* then process_mdx_content, as clean_file applies them to the text read.   *)

FmLines ==
  { <<"t", "i", "t", "l", "e", ":", " ", "H", "e", "l", "l", "o">>,
    <<"t", "i", "t", "l", "e", ":", " ", "'", "H", "e", "l", "l", "o", "'">>,
    <<"t", "i", "t", "l", "e", ":", " ", "\"", "H", "e", "l", "l", "o", "\"">>,
    <<"t", "i", "t", "l", "e", ":", " ", "1", "2", "3">>,
    <<"s", "i", "d", "e", "b", "a", "r", "T", "i", "t", "l", "e", ":", " ", "S", "i", "d", "e">>,
    <<"d", "e", "s", "c", "r", "i", "p", "t", "i", "o", "n", ":", " ", "\"", "A", "b", "o", "u", "t", "\"">>,
    <<"i", "c", "o", "n", ":", " ", "s", "t", "a", "r">>,
    <<"t", "i", "t", "l", "e", ":", " ", "\"", "H", "e", "l", "l", "o">>,
    <<"-", " ", "i", "t", "e", "m">>,
    <<"N", "o", " ", "t", "i", "t", "l", "e">> }

FmBodies == { <<"a">>, Pair(Frame, <<"y">>).text \o <<"a">> }

RECURSIVE JoinLines(_)
JoinLines(ls) ==
  IF ls = <<>> THEN <<>>
  ELSE IF Len(ls) = 1 THEN ls[1]
  ELSE ls[1] \o <<"\n">> \o JoinLines(Tail(ls))

\* a file that opens with a frontmatter block
WithFrontmatter(ls, body) ==
  <<"-", "-", "-", "\n">> \o JoinLines(ls) \o <<"\n", "-", "-", "-", "\n", "\n">> \o body

TextItems == { Text(<<"a">>), Text(<<"\n">>), Text(<<" ">>) }

FileInputs ==
  {WithFrontmatter(ls, body) : ls \in SeqsUpTo(FmLines, MaxFmLines), body \in FmBodies}
    \cup {Render(doc) : doc \in SeqsUpTo(TextItems, MaxText)}

InitFile ==
  /\ fileText \in FileInputs
  /\ cleaned = NoResult
  /\ written = <<>>
  /\ stage = "input"
  /\ StripIdle
  /\ DirIdle

\* content = self.clean_frontmatter(content)
Normalize ==
  /\ stage = "input"
  /\ cleaned' = clean_frontmatter(fileText)
  /\ stage' = "normalized"
  /\ UNCHANGED <<fileText, written, stripVars, dirVars>>

\* content = self.process_mdx_content(content), and the write of the result
StripNormalized ==
  /\ stage = "normalized"
  /\ cleaned.outcome = "returned"
  /\ written' = process_mdx_content(cleaned.text)
  /\ stage' = "written"
  /\ UNCHANGED <<fileText, cleaned, stripVars, dirVars>>

\* except Exception: the error is logged, nothing is written
LogError ==
  /\ stage = "normalized"
  /\ cleaned.outcome = "raised"
  /\ stage' = "failed"
  /\ UNCHANGED <<fileText, cleaned, written, stripVars, dirVars>>

NextFile == Normalize \/ StripNormalized \/ LogError

SpecFile == InitFile /\ [][NextFile]_vars

----------------------------------------------------------------------------
(* Specification of the batch: process_directory over the entries of the    *)
(* docs directory, with the faults the file system can answer with.         *)

UpperLetters ==
  << "A", "B", "C", "D", "E", "F", "G", "H", "I", "J", "K", "L", "M",
     "N", "O", "P", "Q", "R", "S", "T", "U", "V", "W", "X", "Y", "Z" >>

LowerLetters ==
  << "a", "b", "c", "d", "e", "f", "g", "h", "i", "j", "k", "l", "m",
     "n", "o", "p", "q", "r", "s", "t", "u", "v", "w", "x", "y", "z" >>

\* str.lower()
Lower(s) ==
  [k \in 1..Len(s) |->
     IF \E u \in 1..Len(UpperLetters) : UpperLetters[u] = s[k]
     THEN LowerLetters[CHOOSE u \in 1..Len(UpperLetters) : UpperLetters[u] = s[k]]
     ELSE s[k]]

Entry(suffix, isFile, hidden, binary, readable, writable, text) ==
  [suffix |-> suffix, isFile |-> isFile, hidden |-> hidden, binary |-> binary,
   readable |-> readable, writable |-> writable, text |-> text]

\* the kinds of entry a docs directory is made of
Catalog ==
  { Entry(<<".", "m", "d">>, TRUE, FALSE, FALSE, TRUE, TRUE, Pair(Frame, <<"y">>).text \o <<"a">>),
    Entry(<<".", "M", "D", "X">>, TRUE, FALSE, FALSE, TRUE, TRUE,
          WithFrontmatter(<< <<"t", "i", "t", "l", "e", ":", " ", "1", "2", "3">> >>, <<"a">>)),
    Entry(<<".", "t", "x", "t">>, TRUE, FALSE, FALSE, TRUE, TRUE, OpenTag(Tabs).text),
    Entry(<<".", "p", "n", "g">>, TRUE, FALSE, TRUE, TRUE, TRUE, <<>>),
    Entry(<<".", "m", "d">>, TRUE, TRUE, FALSE, TRUE, TRUE, OpenTag(Tabs).text),
    Entry(<<".", "m", "d">>, TRUE, FALSE, FALSE, FALSE, TRUE, OpenTag(Tabs).text),
    Entry(<<".", "m", "d">>, TRUE, FALSE, FALSE, TRUE, FALSE, OpenTag(Tabs).text),
    Entry(<<>>, FALSE, FALSE, FALSE, TRUE, TRUE, <<>>) }

\* what an earlier run left in the backup directory
OldText == <<"o", "l", "d">>

\* is_binary_file(file_path): "text", "binary", or "OSError" when open() fails
is_binary_file(e) ==
  IF ~e.readable THEN "OSError"
  ELSE IF e.binary THEN "binary" ELSE "text"

\* the try block of clean_file, fm what clean_frontmatter made of the content read
Transform(e, text, fm) ==
  IF fm.outcome = "raised" THEN [result |-> "logged", text |-> text]
  ELSE IF ~e.writable THEN [result |-> "logged", text |-> text]
  ELSE [result |-> "transformed", text |-> process_mdx_content(fm.text)]

\* clean_file(file_path) on an entry whose current text is text: what becomes of
\* the call, and the text of the file after it
clean_file(e, text) ==
  IF is_binary_file(e) = "OSError" THEN [result |-> "raised", text |-> text]
  ELSE IF is_binary_file(e) = "binary" THEN [result |-> "skipped", text |-> text]
  ELSE IF Lower(e.suffix) \notin {<<".", "m", "d">>, <<".", "m", "d", "x">>}
  THEN [result |-> "ignored", text |-> text]
  ELSE Transform(e, text, clean_frontmatter(text))

\* shutil.copytree(self.docs_dir, self.backup_dir): the copies made, and
\* whether it raises (it copies what it can and raises at the end)
copytree(d, dsk) ==
  [raised |-> \E k \in DOMAIN d : ~d[k].readable,
   files |-> [k \in {j \in DOMAIN d : d[j].readable} |-> dsk[k]]]

\* create_backup without the test on backup_dir.exists(): the copy is made again
create_backup_again(bk, d, dsk) ==
  [raised |-> copytree(d, dsk).raised,
   backup |-> [exists |-> TRUE, files |-> copytree(d, dsk).files]]

\* create_backup(): the backup directory after the call, and whether it raises
create_backup(bk, d, dsk) ==
  IF ~bk.exists
  THEN [raised |-> copytree(d, dsk).raised,
        backup |-> [exists |-> TRUE, files |-> copytree(d, dsk).files]]
  ELSE [raised |-> FALSE, backup |-> bk]

InitDir ==
  /\ dir \in SeqsUpTo(Catalog, MaxFiles)
  /\ disk = [k \in DOMAIN dir |-> dir[k].text]
  /\ hadBackup \in BOOLEAN
  /\ backup = IF hadBackup THEN [exists |-> TRUE, files |-> [k \in DOMAIN dir |-> OldText]]
              ELSE [exists |-> FALSE, files |-> <<>>]
  /\ pending = DOMAIN dir
  /\ handed = {}
  /\ rewritten = {}
  /\ logged = {}
  /\ pc = "start"
  /\ StripIdle
  /\ FileIdle

\* self.create_backup(), the first statement of process_directory
CreateBackup ==
  /\ pc = "start"
  /\ backup' = create_backup(backup, dir, disk).backup
  /\ pc' = IF create_backup(backup, dir, disk).raised THEN "aborted_backup" ELSE "walking"
  /\ UNCHANGED <<dir, disk, hadBackup, pending, handed, rewritten, logged, stripVars, fileVars>>

\* self.clean_file(file_path) in the loop: what the call r leaves behind
Handle(k, r) ==
  /\ handed' = handed \cup {k}
  /\ disk' = [disk EXCEPT ![k] = r.text]
  /\ rewritten' = IF r.result = "transformed" THEN rewritten \cup {k} ELSE rewritten
  /\ logged' = IF r.result = "logged" THEN logged \cup {k} ELSE logged
  /\ pc' = IF r.result = "raised" THEN "aborted_walk" ELSE "walking"

\* one round of the loop over rglob('*'): the filter, and clean_file on the entry
Visit(k) ==
  /\ pc = "walking"
  /\ k \in pending
  /\ pending' = pending \ {k}
  /\ IF dir[k].isFile /\ ~dir[k].hidden
     THEN Handle(k, clean_file(dir[k], disk[k]))
     ELSE UNCHANGED <<handed, disk, rewritten, logged, pc>>
  /\ UNCHANGED <<dir, backup, hadBackup, stripVars, fileVars>>

\* the loop is exhausted: process_directory returns
Finish ==
  /\ pc = "walking"
  /\ pending = {}
  /\ pc' = "done"
  /\ UNCHANGED <<dir, disk, backup, hadBackup, pending, handed, rewritten, logged, stripVars, fileVars>>

NextDir == CreateBackup \/ (\E k \in DOMAIN dir : Visit(k)) \/ Finish

SpecDir == InitDir /\ [][NextDir]_vars

----------------------------------------------------------------------------
(* Vocabulary and shape of documents, as the properties speak of them *)

ComponentSet == {components[k] : k \in 1..Len(components)}

\* the tag names the program knows as platform-specific: its two tables together
Vocabulary == ComponentSet \cup mintlify_components

NoVocabularyTag(s) ==
  \A n \in Vocabulary :
    /\ ~Occurs(s, <<"<">> \o n)
    /\ ~Occurs(s, <<"<", "/">> \o n \o <<">">>)

\* every tag of the document is a complete tag of the vocabulary
TagsAllVocabulary(doc) ==
  \A k \in 1..Len(doc) :
    /\ doc[k].kind # "partial"
    /\ doc[k].kind \in {"open", "close", "self", "pair"} => doc[k].name \in Vocabulary

\* an open tag followed, before any close tag of its name, by another opening of the same name
SameNameNested(doc) ==
  \E i \in 1..Len(doc) : \E j \in (i + 1)..Len(doc) :
    /\ doc[i].kind = "open"
    /\ doc[j].kind \in {"open", "pair"}
    /\ doc[j].name = doc[i].name
    /\ \A k \in (i + 1)..(j - 1) : ~(doc[k].kind = "close" /\ doc[k].name = doc[i].name)

\* every tag is a self-closing tag or an open/close pair around plain text
WellFormedTags(doc) ==
  \A k \in 1..Len(doc) :
    /\ doc[k].kind \in {"text", "self", "pair", "comment"}
    /\ doc[k].kind \in {"self", "pair"} => doc[k].name \in Vocabulary

RECURSIVE OutsideText(_)
OutsideText(doc) ==
  IF doc = <<>> THEN <<>>
  ELSE (IF Head(doc).kind = "text" THEN Head(doc).text ELSE <<>>) \o OutsideText(Tail(doc))

NonWs(s) == SelectSeq(s, LAMBDA c : c \notin Whitespace)

\* the characters of a occur in s, in the order of a
RECURSIVE IsSubsequence(_, _)
IsSubsequence(a, s) ==
  IF a = <<>> THEN TRUE
  ELSE IF s = <<>> THEN FALSE
  ELSE IF Head(a) = Head(s) THEN IsSubsequence(Tail(a), Tail(s))
  ELSE IsSubsequence(a, Tail(s))

----------------------------------------------------------------------------
(* Properties of the stripper *)

\* C1: after process_mdx_content no '<TagName' and no '</TagName>' of the
\* vocabulary is left in the text.
VocabularyElimination == phase # "input" => NoVocabularyTag(stripped)

\* C3 as stated: '<Tabs><Tabs>inner</Tabs>outer</Tabs>' strips to
\* 'outer</Tabs>', the outer closing tag staying in the output.
NestedKeepsOuterClose ==
  (phase # "input" /\ markup = NestedDoc(Tabs, <<"i", "n", "n", "e", "r">>, <<"o", "u", "t", "e", "r">>))
    => stripped = <<"o", "u", "t", "e", "r">> \o CloseTag(Tabs).text

\* C3 amended: for a component of the stripper's list whose body holds
\* another instance of the same tag name, the region from the outer open
\* tag to the first closing tag of that name is deleted, the outer closing
\* tag is deleted as a bare tag, and exactly the text between the two
\* closing tags is left: '<Tabs><Tabs>inner</Tabs>outer</Tabs>' strips to 'outer'.
NestedLeavesTextAfterFirstClose ==
  \A n \in NestTags : \A a \in NestBodies : \A b \in NestBodies :
    (phase # "input" /\ markup = NestedDoc(n, a, b)) => stripped = b

NestedWitness ==
  /\ phase = "stripped"
  /\ markup = NestedDoc(Tabs, <<"i", "n", "n", "e", "r">>, <<"o", "u", "t", "e", "r">>)
  /\ stripped = <<"o", "u", "t", "e", "r">>

OutsideTextPreserved ==
  (phase # "input" /\ WellFormedTags(markup))
    => IsSubsequence(NonWs(OutsideText(markup)), stripped)

----------------------------------------------------------------------------
(* Properties of the transformation of one file *)

\* the keys of the frontmatter block of a text
BlockKeys(t) ==
  LET ls == SplitLines(FrontmatterBody(t))
  IN {ParseLine(ls[k]).key : k \in {j \in 1..Len(ls) : ParseLine(ls[j]).kind = "pair"}}

BlockLines(t) == LET ls == SplitLines(FrontmatterBody(t)) IN {ls[k] : k \in 1..Len(ls)}

\* the file has a frontmatter block that parses as a key-value mapping
ParsedAsMapping(t) == FrontmatterEnd(t) # 0 /\ LoadFrontmatter(t).kind = "map"

\* C2: a text with no frontmatter block, no Mintlify comment and no
\* vocabulary tag comes out of clean_frontmatter and process_mdx_content with
\* its leading and trailing whitespace trimmed and nothing else changed.
PassThrough ==
  (/\ stage = "written"
   /\ FrontmatterEnd(fileText) = 0
   /\ ~Occurs(fileText, <<"{", "/", "*">>)
   /\ NoVocabularyTag(fileText))
    => written = Strip(fileText)

\* C4: a title written 'Hello', "Hello" or Hello comes out as the line
\* title: "Hello" in the block clean_frontmatter returns.
TitleQuoting ==
  (/\ stage # "input"
   /\ ParsedAsMapping(fileText)
   /\ titleKey \in DOMAIN LoadFrontmatter(fileText).map
   /\ LoadFrontmatter(fileText).map[titleKey] = Str(<<"H", "e", "l", "l", "o">>))
    => /\ cleaned.outcome = "returned"
       /\ <<"t", "i", "t", "l", "e", ":", " ", "\"", "H", "e", "l", "l", "o", "\"">> \in BlockLines(cleaned.text)

\* the target names of the mapping table, as the interface states them
TargetName(k) ==
  CASE k = <<"s", "i", "d", "e", "b", "a", "r", "T", "i", "t", "l", "e">>
         -> <<"s", "i", "d", "e", "b", "a", "r", "_", "l", "a", "b", "e", "l">>
    [] k = <<"d", "e", "s", "c", "r", "i", "p", "t", "i", "o", "n">> -> k
    [] k = <<"t", "i", "t", "l", "e">> -> k

MappedNames ==
  { <<"s", "i", "d", "e", "b", "a", "r", "T", "i", "t", "l", "e">>,
    <<"d", "e", "s", "c", "r", "i", "p", "t", "i", "o", "n">>,
    <<"t", "i", "t", "l", "e">> }

\* C6: when clean_frontmatter rewrites a block parsed as a mapping, the keys
\* of the block it returns are exactly the target names of the input keys
\* that the mapping table holds.
FrontmatterKeySet ==
  (/\ stage # "input"
   /\ ParsedAsMapping(fileText)
   /\ cleaned.outcome = "returned")
    => BlockKeys(cleaned.text) =
         {TargetName(k) : k \in DOMAIN LoadFrontmatter(fileText).map \cap MappedNames}

KeySetWitness ==
  /\ stage = "normalized"
  /\ ParsedAsMapping(fileText)
  /\ cleaned.outcome = "returned"
  /\ DOMAIN LoadFrontmatter(fileText).map =
       {<<"i", "c", "o", "n">>, <<"s", "i", "d", "e", "b", "a", "r", "T", "i", "t", "l", "e">>}
  /\ BlockKeys(cleaned.text) = {<<"s", "i", "d", "e", "b", "a", "r", "_", "l", "a", "b", "e", "l">>}

\* C7: clean_frontmatter always returns a text, and returns its argument
\* unchanged when the block is not a mapping with values of the expected types.
NeverPropagates ==
  stage # "input" =>
    /\ cleaned.outcome = "returned"
    /\ (FrontmatterEnd(fileText) # 0 /\ safe_load(FrontmatterBody(fileText)).kind \in {"error", "list"})
         => cleaned.text = fileText

----------------------------------------------------------------------------
(* Properties of the batch *)

\* C8: a read or write failure on one file, the read of is_binary_file
\* included, never aborts the loop: every other entry is still visited and
\* the run completes.
BatchForwardProgress == pc # "aborted_walk"

\* C9: no file is rewritten before create_backup has completed; a backup
\* made by this run holds every file as it was before any rewrite; a backup
\* that existed before the run is left as it was.
BackupPrecedesMutation ==
  /\ (rewritten # {} \/ disk # [k \in DOMAIN dir |-> dir[k].text])
       => pc \in {"walking", "done", "aborted_walk"}
  /\ (~hadBackup /\ pc \in {"walking", "done", "aborted_walk"})
       => /\ backup.exists
          /\ backup.files = [k \in DOMAIN dir |-> dir[k].text]
  /\ hadBackup => backup = [exists |-> TRUE, files |-> [k \in DOMAIN dir |-> OldText]]

BackupWitness ==
  /\ pc = "done"
  /\ ~hadBackup
  /\ \E k \in rewritten : disk[k] # dir[k].text /\ backup.files[k] = dir[k].text

====
